---- MODULE Spec2Model ----
(***************************************************************************)
(* Model of binh-vu/web-table-extractor:                                   *)
(*   - Table::span / Table::pad            (src/src/table.rs)              *)
(*   - TableExtractor::extract_tables      (src/src/extractors/table.rs)   *)
(*   - SimpleTree                          (src/src/misc/tree/simple_tree.rs) *)
(* Indices are 0-based as in the source; TLA+ sequences are 1-based, so    *)
(* row i of the source is rows[i + 1].                                     *)
(***************************************************************************)
EXTENDS Integers, Sequences, FiniteSets, TLC

VARIABLES
    table,      \* span/pad: the table span and pad are called on
    sp,         \* span/pad: the locals of the running span call
    padin,      \* span/pad: the table pad was called on
    padout,     \* span/pad: what pad returned
    doc,        \* extract_tables: the document (url, table elements)
    opts,       \* extract_tables: auto_span, auto_pad, extract_context
    ex,         \* extract_tables: the locals of the running call
    tree,       \* SimpleTree: the tree that is built and merged into
    other       \* SimpleTree: a second tree, the subtree of the next merge

svars == <<table, sp, padin, padout>>

evars == <<doc, opts, ex>>

tvars == <<tree, other>>

vars == <<svars, evars, tvars>>

(***************************************************************************)
(* Bounds of the table inputs.                                             *)
(***************************************************************************)
MaxRows == 2

MaxCells == 3

MaxSpan == 2

(***************************************************************************)
(* Generic helpers.                                                        *)
(***************************************************************************)
RECURSIVE SumTo(_, _)
SumTo(f, n) == IF n = 0 THEN 0 ELSE f[n] + SumTo(f, n - 1)

Max2(a, b) == IF a >= b THEN a ELSE b

RECURSIVE MaxTo(_, _)
MaxTo(f, n) == IF n = 0 THEN 0 ELSE Max2(f[n], MaxTo(f, n - 1))

(***************************************************************************)
(* SimpleTree (simple_tree.rs).  Node ids are 0-based; node uid is         *)
(* nodes[uid + 1] and its children node2children[uid + 1].                 *)
(***************************************************************************)
\* simple_tree.rs 12-18
Empty == [root |-> 0, nodes |-> <<>>, node2children |-> <<>>]

\* simple_tree.rs 20-26
New(node) == [root |-> 0, nodes |-> <<node>>, node2children |-> << <<>> >>]

\* simple_tree.rs 58-63; the uid returned is Len(t.nodes)
AddNode(t, node) ==
    [t EXCEPT !.nodes = Append(@, node), !.node2children = Append(@, <<>>)]

\* simple_tree.rs 65-70
AddChild(t, parent_id, child_id) ==
    [t EXCEPT !.root = IF child_id = t.root THEN parent_id ELSE @,
              !.node2children[parent_id + 1] = Append(@, child_id)]

\* mutant of Reindex: the child ids of the subtree keep their old values
Reindex_NoOffset(child_id, id_offset) == child_id

\* simple_tree.rs 112
Reindex(child_id, id_offset) == child_id + id_offset

\* simple_tree.rs 106-117
MergeSubtree(t, parent_id, subtree) ==
    LET id_offset == Len(t.nodes)
        moved == [i \in 1..Len(subtree.node2children) |->
                     [j \in 1..Len(subtree.node2children[i]) |->
                         Reindex(subtree.node2children[i][j], id_offset)]]
        node2children == t.node2children \o moved
    IN [root |-> t.root,
        nodes |-> t.nodes \o subtree.nodes,
        node2children |->
            [node2children EXCEPT ![parent_id + 1] = Append(@, subtree.root + id_offset)]]

\* simple_tree.rs 124-129, 144-149: the iterator without its element at
\* (0-based) position i
WithoutAt(seq, i) == SubSeq(seq, 1, i) \o SubSeq(seq, i + 2, Len(seq))

\* mutant of ReindexNoRoot: the ids after the root are not moved down
ReindexNoRoot_SameOffset(child_id, subtree_root, id_offset) == child_id + id_offset

\* simple_tree.rs 134-138
ReindexNoRoot(child_id, subtree_root, id_offset) ==
    IF child_id > subtree_root THEN child_id + id_offset - 1 ELSE child_id + id_offset

\* simple_tree.rs 120-150
MergeSubtreeNoRoot(t, parent_id, subtree) ==
    LET id_offset == Len(t.nodes)
        subtree_root == subtree.root
        moved == [i \in 1..Len(subtree.node2children) |->
                     [j \in 1..Len(subtree.node2children[i]) |->
                         ReindexNoRoot(subtree.node2children[i][j], subtree_root, id_offset)]]
    IN [root |-> t.root,
        nodes |-> t.nodes \o WithoutAt(subtree.nodes, subtree_root),
        node2children |->
            [t.node2children EXCEPT ![parent_id + 1] = @ \o moved[subtree_root + 1]]
                \o WithoutAt(moved, subtree_root)]

(***************************************************************************)
(* Data model: Table, Row, Cell (table.rs 5-33).                           *)
(***************************************************************************)
Cell(is_header, rowspan, colspan, attrs, value, html) ==
    [is_header |-> is_header, rowspan |-> rowspan, colspan |-> colspan,
     attrs |-> attrs, value |-> value, html |-> html]

Row(cells, attrs) == [cells |-> cells, attrs |-> attrs]

Table(id, url, caption, attrs, context, rows) ==
    [id |-> id, url |-> url, caption |-> caption, attrs |-> attrs,
     context |-> context, rows |-> rows]

\* Option<Table> and Result<Table, TableExtractorError>
None == [some |-> FALSE]

Some(t) == [some |-> TRUE, val |-> t]

(***************************************************************************)
(* Input tables: every shape with at most MaxRows rows and MaxCells cells  *)
(* in total, every rowspan in 1..MaxSpan and every colspan in 0..MaxSpan    *)
(* (colspan="0" parses to 0 and makes the colspan loop place nothing; a    *)
(* rowspan of 0 takes the same branches as 1: `rowspan > 1` is false and   *)
(* `1..0` is empty).  The cell at row i, position j carries the label      *)
(* <<i, j>> as its value, so that copies of a cell can be told apart from  *)
(* other cells; header cells alternate.                                    *)
(***************************************************************************)
Shapes ==
    {w \in UNION {[1..n -> 0..MaxCells] : n \in 0..MaxRows} :
        SumTo(w, Len(w)) <= MaxCells}

Pos(w) == {p \in (1..Len(w)) \X (1..MaxCells) : p[2] <= w[p[1]]}

RowSpans == 1..MaxSpan

ColSpans == 0..MaxSpan

MkTable(w, rs, cs, hd) ==
    Table("id", "url", "caption", "tattrs", <<>>,
          [i \in 1..Len(w) |->
              Row([j \in 1..w[i] |->
                      Cell(hd[<<i, j>>], rs[<<i, j>>], cs[<<i, j>>],
                           "cattrs", <<i, j>>, <<"html", i, j>>)],
                  <<"rattrs", i>>)])

(***************************************************************************)
(* Table::span (table.rs 37-136).                                          *)
(***************************************************************************)
\* table.rs 52-64: cols[i] = #cells of row i + one per cell of an earlier
\* row i0 whose rowspan reaches row i (j in 1..rowspan with i0 + j = i).
Owed(rows, i) ==
    LET cnt == [i0 \in 1..(i - 1) |->
                   Cardinality({c \in 1..Len(rows[i0].cells) :
                       /\ rows[i0].cells[c].rowspan > 1
                       /\ i - i0 < rows[i0].cells[c].rowspan})]
    IN SumTo(cnt, i - 1)

Cols(rows) == [i \in 1..Len(rows) |-> Len(rows[i].cells) + Owed(rows, i)]

\* table.rs 66
MaxNcols(rows) == MaxTo(Cols(rows), Len(rows))

\* HashMap::insert / remove / contains_key on pending_ops
Insert(m, key, v) == [x \in (DOMAIN m) \cup {key} |-> IF x = key THEN v ELSE m[x]]

Remove(m, key) == [x \in (DOMAIN m) \ {key} |-> m[x]]

ContainsKey(m, key) == key \in DOMAIN m

EmptyMap == [x \in {} |-> 0]

\* table.rs 82-85: move the pending cells of row pi at columns pj, pj+1, ...
\* into new_row
RECURSIVE DrainTop(_, _, _, _)
DrainTop(pending_ops, new_row, pi, pj) ==
    IF ContainsKey(pending_ops, <<pi, pj>>)
    THEN DrainTop(Remove(pending_ops, <<pi, pj>>),
                  Append(new_row, pending_ops[<<pi, pj>>]), pi, pj + 1)
    ELSE [pending_ops |-> pending_ops, new_row |-> new_row, pj |-> pj]

\* table.rs 114: the key looked up by the drain after the last cell of a row
EndKey(pi, pj) == <<pj, pj>>

\* table.rs 114-117
RECURSIVE DrainEnd(_, _, _, _, _)
DrainEnd(pending_ops, new_row, pi, pj, max_ncols) ==
    IF ContainsKey(pending_ops, EndKey(pi, pj)) /\ pj < max_ncols
    THEN DrainEnd(Remove(pending_ops, EndKey(pi, pj)),
                  Append(new_row, pending_ops[EndKey(pi, pj)]), pi, pj + 1, max_ncols)
    ELSE [pending_ops |-> pending_ops, new_row |-> new_row, pj |-> pj]

\* table.rs 94-96: for ioffset in 1..ocell.rowspan insert (pi + ioffset, pj)
RegisterPending(pending_ops, pi, pj, rowspan, cell) ==
    LET keys == {<<pi + ioffset, pj>> : ioffset \in 1..(rowspan - 1)}
    IN [x \in (DOMAIN pending_ops) \cup keys |->
           IF x \in keys THEN cell ELSE pending_ops[x]]

\* table.rs 94-96: the number of inserts the loop has made so far for each
\* row, one more for each of the rows pi + 1 .. pi + rowspan - 1
Registered(registered, row) == IF row \in DOMAIN registered THEN registered[row] ELSE 0

CountPending(registered, pi, rowspan) ==
    LET rows == {pi + ioffset : ioffset \in 1..(rowspan - 1)}
    IN [r \in (DOMAIN registered) \cup rows |->
           Registered(registered, r) + (IF r \in rows THEN 1 ELSE 0)]

\* mutant of Unspanned: the rowspan of the copy is not reset
Unspanned_KeepsRowspan(ocell) == [ocell EXCEPT !.colspan = 1]

\* table.rs 77-79
Unspanned(ocell) == [ocell EXCEPT !.colspan = 1, !.rowspan = 1]

\* mutant of Overlaps: the collision test is missing
Overlaps_Never(pending_ops, pi, pj) == FALSE

\* table.rs 89
Overlaps(pending_ops, pi, pj) == ContainsKey(pending_ops, <<pi, pj>>)

\* table.rs 99
Overflows(pj, max_ncols) == pj >= max_ncols

\* mutant of IsLastCell: off by one
IsLastCell_OffByOne(cell_index, ncells) == cell_index = ncells

\* table.rs 102
IsLastCell(cell_index, ncells) == cell_index = ncells - 1

\* The locals of one call of span.  pc is the position in the code:
\*   "start"  before line 38
\*   "expand" line 88, before iteration k of the colspan loop of cell
\*            cell_index (the pending cells owed at the cursor are taken)
\*   "rowend" line 113              "ok" / "err"  returned
\* registered counts, per row, the pending cells inserted so far (a record
\* of what the loop of lines 94-96 did, read by no step).
SpanStart ==
    [pc |-> "start", pi |-> 0, cell_index |-> 0, k |-> 0, pj |-> 0,
     pending_ops |-> EmptyMap, new_row |-> <<>>, data |-> <<>>,
     max_ncols |-> 0, err |-> "none", registered |-> EmptyMap]

\* table.rs 76-88: the cell loop arrives at cell s.cell_index: past the
\* last cell the row ends; otherwise the pending cells owed at the cursor
\* are taken and the colspan loop starts (with colspan = 0 it has no
\* iteration and the next cell follows)
RECURSIVE EnterCell(_, _)
EnterCell(t, s) ==
    LET row == t.rows[s.pi + 1]
        d == DrainTop(s.pending_ops, s.new_row, s.pi, s.pj)
        s1 == [s EXCEPT !.pending_ops = d.pending_ops, !.new_row = d.new_row,
                        !.pj = d.pj, !.k = 0]
    IN IF s.cell_index >= Len(row.cells) THEN [s EXCEPT !.pc = "rowend", !.k = 0]
       ELSE IF row.cells[s.cell_index + 1].colspan = 0
       THEN EnterCell(t, [s1 EXCEPT !.cell_index = s.cell_index + 1])
       ELSE [s1 EXCEPT !.pc = "expand"]

\* table.rs 72-76: start of the body of `for row in &self.rows`
RowStart(t, s) ==
    EnterCell(t, [s EXCEPT !.new_row = <<>>, !.pj = 0, !.cell_index = 0])

\* table.rs 76, 111: next iteration of `for (cell_index, ocell) in ...`
AfterCell(t, s) == EnterCell(t, [s EXCEPT !.cell_index = s.cell_index + 1])

\* table.rs 38-70
SpanBeginStep(t, s) ==
    IF Len(t.rows) = 0
    THEN [s EXCEPT !.pc = "ok", !.data = t.rows]
    ELSE RowStart(t, [s EXCEPT !.max_ncols = MaxNcols(t.rows), !.pi = 0])

\* table.rs 88-110: one iteration of `for _ in 0..ocell.colspan`
ExpandStep(t, s) ==
    LET row == t.rows[s.pi + 1]
        ocell == row.cells[s.cell_index + 1]
        cell == Unspanned(ocell)
        s1 == [s EXCEPT !.new_row = Append(s.new_row, cell),
                        !.pending_ops = RegisterPending(s.pending_ops, s.pi, s.pj,
                                                        ocell.rowspan, cell),
                        !.registered = CountPending(s.registered, s.pi, ocell.rowspan),
                        !.pj = s.pj + 1, !.k = s.k + 1]
    IN IF Overlaps(s.pending_ops, s.pi, s.pj)
       THEN [s EXCEPT !.pc = "err", !.err = "OverlapSpanError"]
       ELSE IF Overflows(s1.pj, s.max_ncols)
       THEN IF ~IsLastCell(s.cell_index, Len(row.cells))
            THEN [s1 EXCEPT !.pc = "err", !.err = "InvalidCellSpanError"]
            ELSE AfterCell(t, s1)
       ELSE IF s1.k = ocell.colspan
       THEN AfterCell(t, s1)
       ELSE s1

\* table.rs 113-124
RowEndStep(t, s) ==
    LET row == t.rows[s.pi + 1]
        d == DrainEnd(s.pending_ops, s.new_row, s.pi, s.pj, s.max_ncols)
        s1 == [s EXCEPT !.pending_ops = d.pending_ops, !.new_row = d.new_row,
                        !.pj = d.pj,
                        !.data = Append(s.data, Row(d.new_row, row.attrs)),
                        !.pi = s.pi + 1]
    IN IF s1.pi < Len(t.rows) THEN RowStart(t, s1) ELSE [s1 EXCEPT !.pc = "ok"]

SpanStep(t, s) ==
    CASE s.pc = "start" -> SpanBeginStep(t, s)
      [] s.pc = "expand" -> ExpandStep(t, s)
      [] s.pc = "rowend" -> RowEndStep(t, s)
      [] OTHER -> s

\* The whole call: run the steps to the return
RECURSIVE SpanRun(_, _)
SpanRun(t, s) == IF s.pc \in {"ok", "err"} THEN s ELSE SpanRun(t, SpanStep(t, s))

\* table.rs 128-135 (Ok) and 91, 103 (Err): the value returned by span
SpanResult(t, s) ==
    IF s.pc = "ok"
    THEN [ok |-> TRUE, val |-> Table(t.id, t.url, t.caption, t.attrs, t.context, s.data)]
    ELSE [ok |-> FALSE, err |-> s.err]

Span(t) == SpanResult(t, SpanRun(t, SpanStart))

(***************************************************************************)
(* Table::pad (table.rs 141-184).                                          *)
(***************************************************************************)
\* mutant of IsRegularTable: `any` in place of `all`
IsRegularTable_Any(rows) ==
    LET ncols == Len(rows[1].cells)
    IN \E i \in 1..Len(rows) : Len(rows[i].cells) = ncols

\* table.rs 146-147
IsRegularTable(rows) ==
    LET ncols == Len(rows[1].cells)
    IN \A i \in 1..Len(rows) : Len(rows[i].cells) = ncols

\* table.rs 152
PadMaxNcols(rows) == MaxTo([i \in 1..Len(rows) |-> Len(rows[i].cells)], Len(rows))

\* table.rs 153-160
DefaultCell == Cell(FALSE, 1, 1, <<>>, "", "")

\* mutant of NewCell: the header flag of the row's last cell is not copied
NewCell_NeverHeader(row) == DefaultCell

\* table.rs 166-168
NewCell(row) ==
    [DefaultCell EXCEPT !.is_header =
        IF Len(row.cells) = 0 THEN FALSE ELSE row.cells[Len(row.cells)].is_header]

\* table.rs 164-173
PadRow(row, max_ncols) ==
    [row EXCEPT !.cells =
        [j \in 1..Max2(Len(row.cells), max_ncols) |->
            IF j <= Len(row.cells) THEN row.cells[j] ELSE NewCell(row)]]

Pad(t) ==
    IF Len(t.rows) = 0 THEN None
    ELSE IF IsRegularTable(t.rows) THEN None
    ELSE Some(Table(t.id, t.url, t.caption, t.attrs, t.context,
                    [i \in 1..Len(t.rows) |-> PadRow(t.rows[i], PadMaxNcols(t.rows))]))

\* extractors/table.rs 151: tbl.pad().unwrap_or(tbl)
UnwrapOr(opt, dflt) == IF opt.some THEN opt.val ELSE dflt

(***************************************************************************)
(* The span/pad state machine.  padin is the table pad was called on       *)
(* (None before the call), padout what pad returned.                       *)
(***************************************************************************)
\* values of the variables of the calls that are not running
NoDoc == [url |-> "none", els |-> <<>>]

NoOpts == [auto_span |-> FALSE, auto_pad |-> FALSE, extract_context |-> FALSE]

ExIdle == [pc |-> "idle"]

NoTable == Table("", "", "", "", <<>>, <<>>)

SpanIdle == [pc |-> "idle"]

HeaderOf(w) == [p \in Pos(w) |-> (p[1] + p[2]) % 2 = 0]

InitSpan ==
    /\ \E w \in Shapes :
         \E rs \in [Pos(w) -> RowSpans], cs \in [Pos(w) -> ColSpans] :
            table = MkTable(w, rs, cs, HeaderOf(w))
    /\ sp = SpanStart
    /\ padin = None
    /\ padout = None
    /\ doc = NoDoc
    /\ opts = NoOpts
    /\ ex = ExIdle
    /\ tree = Empty
    /\ other = Empty

SpanBegin ==
    /\ sp.pc = "start"
    /\ padin = None
    /\ sp' = SpanBeginStep(table, sp)
    /\ UNCHANGED <<table, padin, padout, evars, tvars>>

Expand ==
    /\ sp.pc = "expand"
    /\ sp' = ExpandStep(table, sp)
    /\ UNCHANGED <<table, padin, padout, evars, tvars>>

RowEnd ==
    /\ sp.pc = "rowend"
    /\ sp' = RowEndStep(table, sp)
    /\ UNCHANGED <<table, padin, padout, evars, tvars>>

\* pad called on the table span returned
PadSpanned ==
    /\ sp.pc = "ok"
    /\ padin = None
    /\ padin' = Some(SpanResult(table, sp).val)
    /\ padout' = Pad(SpanResult(table, sp).val)
    /\ UNCHANGED <<table, sp, evars, tvars>>

\* pad called on the input table itself (auto_span off)
PadInput ==
    /\ sp.pc = "start"
    /\ padin = None
    /\ padin' = Some(table)
    /\ padout' = Pad(table)
    /\ UNCHANGED <<table, sp, evars, tvars>>

NextSpan == SpanBegin \/ Expand \/ RowEnd \/ PadSpanned \/ PadInput

Spec == InitSpan /\ [][NextSpan]_vars

(***************************************************************************)
(* Properties of span and pad.                                             *)
(***************************************************************************)
SameWidth(t) ==
    \A i, j \in 1..Len(t.rows) : Len(t.rows[i].cells) = Len(t.rows[j].cells)

AllUnit(t) ==
    \A i \in 1..Len(t.rows) : \A j \in 1..Len(t.rows[i].cells) :
        t.rows[i].cells[j].colspan = 1 /\ t.rows[i].cells[j].rowspan = 1

HasSpan(t) ==
    \E i \in 1..Len(t.rows) : \E j \in 1..Len(t.rows[i].cells) :
        t.rows[i].cells[j].colspan > 1 \/ t.rows[i].cells[j].rowspan > 1

\* the table pad was called on came from a successful span
PaddedAfterSpan == sp.pc = "ok" /\ padin.some

\* C1: whenever span succeeds, pad applied to its result (the span result
\* itself when pad returns none) is a table whose rows all have the same
\* number of cells and whose cells all have colspan = 1 and rowspan = 1.
C1_SpanThenPad ==
    PaddedAfterSpan =>
        /\ SameWidth(UnwrapOr(padout, padin.val))
        /\ AllUnit(UnwrapOr(padout, padin.val))

\* C1 witness: a table with a real span was spanned, came out ragged and
\* was padded
C1_Witness ==
    /\ PaddedAfterSpan
    /\ HasSpan(table)
    /\ padout.some
    /\ SameWidth(padout.val)

\* C2: on a table whose cells all have colspan = rowspan = 1 span never
\* fails, and what it returns is the input table: same rows, same cells in
\* the same order, same id, url, caption, attrs and context.
C2_UnitSpanIsIdentity ==
    AllUnit(table) =>
        /\ sp.pc # "err"
        /\ sp.pc = "ok" => SpanResult(table, sp) = [ok |-> TRUE, val |-> table]

\* C2 witness: a ragged unit table with an empty row went through span
C2_Witness ==
    /\ AllUnit(table)
    /\ sp.pc = "ok"
    /\ Len(table.rows) = 2
    /\ \E i \in 1..2 : Len(table.rows[i].cells) = 0
    /\ \E i \in 1..2 : Len(table.rows[i].cells) = 2

\* the colspan loop is about to fill column pj of row pi
AboutToFill == sp.pc = "expand"

\* C3: whenever the colspan loop is about to fill a column of row pi that
\* holds a pending cell for row pi, span returns OverlapSpanError and no
\* table.
C3_OverlapFails ==
    [][(AboutToFill /\ ContainsKey(sp.pending_ops, <<sp.pi, sp.pj>>))
          => SpanResult(table, sp') = [ok |-> FALSE, err |-> "OverlapSpanError"]]_vars

\* C3 witness: span stopped on a colspan column that a rowspan of an
\* earlier row had reserved
C3_Witness ==
    /\ sp.pc = "err"
    /\ sp.err = "OverlapSpanError"
    /\ sp.k >= 1
    /\ ContainsKey(sp.pending_ops, <<sp.pi, sp.pj>>)
    /\ sp.pending_ops[<<sp.pi, sp.pj>>].value[1] < sp.pi + 1

\* filling column pj moves the cursor to or past the column count
CursorOverflows ==
    /\ AboutToFill
    /\ ~ContainsKey(sp.pending_ops, <<sp.pi, sp.pj>>)
    /\ sp.pj + 1 >= sp.max_ncols

OnLastCell == sp.cell_index = Len(table.rows[sp.pi + 1].cells) - 1

\* C4: a cell that is not the last of its row and whose colspan moves the
\* cursor past the column count makes span fail with InvalidCellSpanError;
\* on the last cell of a row the same overflow is no failure, and the row
\* built so far stops at the column count.
C4_OverflowClamped ==
    [][CursorOverflows =>
          IF OnLastCell
          THEN /\ sp'.pc # "err"
               /\ Len(sp'.new_row) <= sp.max_ncols
          ELSE SpanResult(table, sp') = [ok |-> FALSE, err |-> "InvalidCellSpanError"]]_vars

\* C5: pad returns none exactly when all rows have the same number of
\* cells (a table without rows included), and a table whenever two rows
\* differ in cell count.
C5_PadNoneIffRegular == padin.some => (padout.some <=> ~SameWidth(padin.val))

\* C5 witness: pad returned none on a rectangular table of two rows
C5_Witness ==
    /\ padin.some
    /\ ~padout.some
    /\ Len(padin.val.rows) = 2
    /\ Len(padin.val.rows[1].cells) >= 1
    /\ SameWidth(padin.val)

\* the drain of the pending cells of row pi from column pj on, up to the
\* column count
RECURSIVE DrainRow(_, _, _, _, _)
DrainRow(pending_ops, new_row, pi, pj, max_ncols) ==
    IF ContainsKey(pending_ops, <<pi, pj>>) /\ pj < max_ncols
    THEN DrainRow(Remove(pending_ops, <<pi, pj>>),
                  Append(new_row, pending_ops[<<pi, pj>>]), pi, pj + 1, max_ncols)
    ELSE [pending_ops |-> pending_ops, new_row |-> new_row, pj |-> pj]

\* the own cells of row pi have been placed, the cursor is at column pj
OwnCellsPlaced == sp.pc = "rowend"

\* C11: after the own cells of row pi have been placed with the cursor at
\* column pj, the row that span emits is the row built so far followed by
\* the pending cells registered for row pi at columns pj, pj+1, ..., up to
\* the first column without a pending cell for row pi or the column count;
\* pending cells registered for other rows stay pending.
C11_DrainAfterOwnCells ==
    [][OwnCellsPlaced =>
          /\ sp'.data[sp.pi + 1].cells =
                DrainRow(sp.pending_ops, sp.new_row, sp.pi, sp.pj, sp.max_ncols).new_row
          /\ \A key \in DOMAIN sp.pending_ops :
                key[1] \notin {sp.pi, sp.pi + 1} => key \in DOMAIN sp'.pending_ops]_vars

\* per row: its own cells plus the pending cells the placement pass
\* registered for it
OwnPlusProjected ==
    [i \in 1..Len(table.rows) |->
        Len(table.rows[i].cells) + Registered(sp.registered, i - 1)]

\* C12: the column count span uses for its overflow check is the maximum
\* over the rows of (number of original cells of the row + number of
\* pending cells the placement pass registers for the row, one per spanned
\* column of each rowspan > 1 cell of an earlier row).
C12_ColumnCount ==
    sp.pc = "ok" => sp.max_ncols = MaxTo(OwnPlusProjected, Len(table.rows))

\* w is the largest number of cells of a row of t
IsMaxWidth(t, w) ==
    /\ \E i \in 1..Len(t.rows) : Len(t.rows[i].cells) = w
    /\ \A i \in 1..Len(t.rows) : Len(t.rows[i].cells) <= w

\* cell c is a padding cell with header flag hd
IsPadding(c, hd) ==
    /\ c.value = ""
    /\ c.attrs = <<>>
    /\ c.colspan = 1
    /\ c.rowspan = 1
    /\ c.is_header = hd

\* row rb is row ra with padding cells appended
PaddedRow(ra, rb) ==
    LET n == Len(ra.cells)
    IN /\ rb.attrs = ra.attrs
       /\ Len(rb.cells) >= n
       /\ SubSeq(rb.cells, 1, n) = ra.cells
       /\ \A j \in (n + 1)..Len(rb.cells) :
             IsPadding(rb.cells[j], n > 0 /\ ra.cells[n].is_header)

\* C13: when pad returns a table, every row has the maximum row width of
\* the input, keeps its original cells unchanged as a prefix, and every
\* appended cell is blank with empty attrs, colspan = rowspan = 1 and the
\* header flag of the row's last original cell (false for a row without
\* cells); id, url, caption, attrs, context and row attrs are unchanged.
C13_PadAppends ==
    (padin.some /\ padout.some) =>
        /\ padout.val.id = padin.val.id
        /\ padout.val.url = padin.val.url
        /\ padout.val.caption = padin.val.caption
        /\ padout.val.attrs = padin.val.attrs
        /\ padout.val.context = padin.val.context
        /\ Len(padout.val.rows) = Len(padin.val.rows)
        /\ \A i \in 1..Len(padin.val.rows) :
              /\ IsMaxWidth(padin.val, Len(padout.val.rows[i].cells))
              /\ PaddedRow(padin.val.rows[i], padout.val.rows[i])

\* C13 witness: pad returned a table in which a row ending in a header
\* cell was filled up with a header padding cell
C13_Witness ==
    /\ padin.some
    /\ padout.some
    /\ \E i \in 1..Len(padin.val.rows) :
          LET n == Len(padin.val.rows[i].cells)
          IN /\ n > 0
             /\ padin.val.rows[i].cells[n].is_header
             /\ Len(padout.val.rows[i].cells) > n
             /\ padout.val.rows[i].cells[n + 1].is_header

(***************************************************************************)
(* TableExtractor (extractors/table.rs).                                   *)
(*                                                                         *)
(* A document is a url and the `table` elements of its tree in document    *)
(* order.  An element has children (caption, thead, tbody, other), a       *)
(* thead/tbody has tr children, a tr has td/th children; a td/th has the   *)
(* raw text of its colspan and rowspan attributes (a sequence of           *)
(* characters, or absent) and a rich text.  A rich text is modelled by the *)
(* sequence of link targets in it.                                         *)
(***************************************************************************)
MaxTables == 2

U16Max == 65535

Ok(v) == [ok |-> TRUE, val |-> v]

Err(e) == [ok |-> FALSE, err |-> e]

\* an error of extract_tables: its kind and the message it carries
Error(kind, msg) == [kind |-> kind, msg |-> msg]

NoAttr == [present |-> FALSE, s |-> <<>>]

Attr(s) == [present |-> TRUE, s |-> s]

\* str::trim
RECURSIVE TrimStart(_)
TrimStart(s) == IF Len(s) > 0 /\ Head(s) = " " THEN TrimStart(Tail(s)) ELSE s

RECURSIVE TrimEnd(_)
TrimEnd(s) ==
    IF Len(s) > 0 /\ s[Len(s)] = " " THEN TrimEnd(SubSeq(s, 1, Len(s) - 1)) ELSE s

Trim(s) == TrimEnd(TrimStart(s))

Digits == {"0", "1", "2", "3", "4", "5", "6", "7", "8", "9"}

DigitVal(c) ==
    CASE c = "0" -> 0 [] c = "1" -> 1 [] c = "2" -> 2 [] c = "3" -> 3 [] c = "4" -> 4
      [] c = "5" -> 5 [] c = "6" -> 6 [] c = "7" -> 7 [] c = "8" -> 8 [] c = "9" -> 9

DigitChar(d) ==
    CASE d = 0 -> "0" [] d = 1 -> "1" [] d = 2 -> "2" [] d = 3 -> "3" [] d = 4 -> "4"
      [] d = 5 -> "5" [] d = 6 -> "6" [] d = 7 -> "7" [] d = 8 -> "8" [] d = 9 -> "9"

RECURSIVE DecVal(_)
DecVal(s) ==
    IF Len(s) = 0 THEN 0
    ELSE 10 * DecVal(SubSeq(s, 1, Len(s) - 1)) + DigitVal(s[Len(s)])

\* str::parse::<u16>: an optional "+", then one or more digits, at most u16::MAX
ParseU16(s) ==
    LET d == IF Len(s) > 0 /\ Head(s) = "+" THEN Tail(s) ELSE s
    IN IF Len(d) > 0 /\ (\A i \in 1..Len(d) : d[i] \in Digits) /\ DecVal(d) <= U16Max
       THEN Ok(DecVal(d))
       ELSE Err(Error("ParseIntError", s))

\* usize::to_string
RECURSIVE UsizeToString(_)
UsizeToString(i) ==
    IF i < 10 THEN <<DigitChar(i)>> ELSE UsizeToString(i \div 10) \o <<DigitChar(i % 10)>>

\* extractors/table.rs 284-301: one of colspan / rowspan
ParseSpan(attr) ==
    LET raw == Trim(IF attr.present THEN attr.s ELSE <<"1">>)
    IN IF raw = <<>> THEN Ok(1)
       ELSE IF ParseU16(raw).ok THEN ParseU16(raw)
       ELSE Err(Error("InvalidCellSpanError", raw))

\* extractors/table.rs 279-320
ExtractCell(c) ==
    LET colspan == ParseSpan(c.colspan)
        rowspan == ParseSpan(c.rowspan)
    IN IF ~colspan.ok THEN colspan
       ELSE IF ~rowspan.ok THEN rowspan
       ELSE Ok(Cell(c.name = "th", rowspan.val, colspan.val,
                    [colspan |-> c.colspan, rowspan |-> c.rowspan], c.value, c))

\* `?` over a sequence of results: the first error, if any
RECURSIVE FirstErr(_)
FirstErr(rs) ==
    IF Len(rs) = 0 THEN None
    ELSE IF ~Head(rs).ok THEN Some(Head(rs)) ELSE FirstErr(Tail(rs))

Vals(rs) == [i \in 1..Len(rs) |-> rs[i].val]

IsCellEl(n) == n.name \in {"td", "th"}

IsRowEl(n) == n.name = "tr"

IsSectionEl(n) == n.name \in {"thead", "tbody"}

IsCaptionEl(n) == n.name = "caption"

\* extractors/table.rs 242-259: one tr
ExtractRow(tr) ==
    LET cs == SelectSeq(tr.children, IsCellEl)
        rs == [j \in 1..Len(cs) |-> ExtractCell(cs[j])]
    IN IF FirstErr(rs).some THEN FirstErr(rs).val ELSE Ok(Row(Vals(rs), tr.attrs))

\* extractors/table.rs 235-261: the tr children of one thead / tbody
ExtractSection(sec) ==
    LET trs == SelectSeq(sec.children, IsRowEl)
        rs == [i \in 1..Len(trs) |-> ExtractRow(trs[i])]
    IN IF FirstErr(rs).some THEN FirstErr(rs).val ELSE Ok(Vals(rs))

RECURSIVE Concat(_)
Concat(ss) == IF Len(ss) = 0 THEN <<>> ELSE Head(ss) \o Concat(Tail(ss))

\* extractors/table.rs 215, 225-228: caption is assigned at every caption child
RECURSIVE Caption(_, _)
Caption(children, caption) ==
    IF Len(children) = 0 THEN caption
    ELSE Caption(Tail(children),
                 IF IsCaptionEl(Head(children)) THEN Head(children).text ELSE caption)

\* extractors/table.rs 214-272
ExtractNonNestedTable(el) ==
    LET secs == SelectSeq(el.children, IsSectionEl)
        rs == [i \in 1..Len(secs) |-> ExtractSection(secs[i])]
    IN IF FirstErr(rs).some THEN FirstErr(rs).val
       ELSE Ok(Table("", "", Caption(el.children, ""), el.attrs, <<>>, Concat(Vals(rs))))

\* A link target of a rich text: relative (a path) or absolute
Rel(path) == [abs |-> FALSE, base |-> "", path |-> path]

Abs(base, path) == [abs |-> TRUE, base |-> base, path |-> path]

\* URLConverter: a relative target is resolved against the document url,
\* an absolute one is kept
NormalizeUrl(ref, url) == IF ref.abs THEN ref ELSE Abs(url.base, ref.path)

\* URLConverter::normalize_rich_text
NormalizeRichText(rt, url) == [i \in 1..Len(rt) |-> NormalizeUrl(rt[i], url)]

\* ContextExtractor::extract_context: the context found around the element
ExtractContext(el) == el.ctx

\* Url::parse: only an absolute url parses
UrlParse(url) == IF url.valid THEN Ok(url) ELSE Err(Error("UrlParseError", <<>>))

\* extractors/table.rs 130: tbl.span(py).  The call can also fail with an
\* error of the binding layer that is neither span error.
SpanPy(tbl, pyerr) ==
    IF pyerr THEN Err(Error("PyErr", <<>>))
    ELSE IF Span(tbl).ok THEN Span(tbl)
    ELSE Err(Error(Span(tbl).err, <<>>))

\* mutant of IsSpanError: InvalidCellSpanError is not tolerated
IsSpanError_OnlyOverlap(err) == err.kind = "OverlapSpanError"

\* extractors/table.rs 136-137
IsSpanError(err) == err.kind \in {"OverlapSpanError", "InvalidCellSpanError"}

\* The locals of one call of extract_tables; pc is the next step:
\* "select", "span", "pad", "context", "ids", "normalize", then "done"
\* (Ok(tables)) or "failed" (Err(err)).
ExStart ==
    [pc |-> "select", tables |-> <<>>, table_els |-> <<>>, err |-> Error("none", <<>>)]

Fail(e, err) == [e EXCEPT !.pc = "failed", !.err = err]

\* extractors/table.rs 117-123, for the elements i..Len(d.els)
RECURSIVE SelectFrom(_, _, _)
SelectFrom(d, e, i) ==
    IF i > Len(d.els) THEN [e EXCEPT !.pc = "span"]
    ELSE IF d.els[i].nested THEN SelectFrom(d, e, i + 1)
    ELSE LET r == ExtractNonNestedTable(d.els[i])
         IN IF ~r.ok THEN Fail(e, r.err)
            ELSE SelectFrom(d, [e EXCEPT !.tables = Append(e.tables, r.val),
                                         !.table_els = Append(e.table_els, i)], i + 1)

\* extractors/table.rs 129-143, for the tables i..Len(e.tables); the result
\* is [ok, new_tables, new_table_els] or the error of bail!
RECURSIVE SpanFrom(_, _, _, _, _)
SpanFrom(d, e, i, new_tables, new_table_els) ==
    IF i > Len(e.tables)
    THEN Ok([tables |-> new_tables, table_els |-> new_table_els])
    ELSE LET r == SpanPy(e.tables[i], d.pyerr_at = e.table_els[i])
         IN IF r.ok
            THEN SpanFrom(d, e, i + 1, Append(new_tables, r.val),
                          Append(new_table_els, e.table_els[i]))
            ELSE IF ~IsSpanError(r.err) THEN Err(r.err)
            ELSE SpanFrom(d, e, i + 1, new_tables, new_table_els)

\* extractors/table.rs 125-146
SpanPhase(d, o, e) ==
    IF ~o.auto_span THEN [e EXCEPT !.pc = "pad"]
    ELSE LET r == SpanFrom(d, e, 1, <<>>, <<>>)
         IN IF ~r.ok THEN Fail(e, r.err)
            ELSE [e EXCEPT !.tables = r.val.tables, !.table_els = r.val.table_els,
                           !.pc = "pad"]

\* extractors/table.rs 148-153
PadPhase(d, o, e) ==
    IF ~o.auto_pad THEN [e EXCEPT !.pc = "context"]
    ELSE [e EXCEPT !.tables = [i \in 1..Len(e.tables) |->
                                  UnwrapOr(Pad(e.tables[i]), e.tables[i])],
                   !.pc = "context"]

\* extractors/table.rs 155-164
ContextPhase(d, o, e) ==
    IF ~o.extract_context THEN [e EXCEPT !.pc = "ids"]
    ELSE [e EXCEPT !.tables = [i \in 1..Len(e.tables) |->
                                  [e.tables[i] EXCEPT !.context =
                                      ExtractContext(d.els[e.table_els[i]])]],
                   !.pc = "ids"]

\* extractors/table.rs 168-175
QueryPrefix(url) ==
    IF url.query.some THEN url.query.val \o <<"&table_no=">> ELSE <<"table_no=">>

\* Url::set_query
SetQuery(url, query) == [url EXCEPT !.query = Some(query)]

\* mutant of Truncate: the digits of the previous table stay in the buffer
Truncate_Noop(v, len) == v

\* Vec::truncate
Truncate(v, len) == SubSeq(v, 1, len)

\* extractors/table.rs 178-184, for the tables i..Len(tables); the index of
\* enumerate() is i - 1
RECURSIVE AssignFrom(_, _, _, _, _, _)
AssignFrom(tables, i, url, query, query_len, doc_url) ==
    IF i > Len(tables) THEN tables
    ELSE LET q1 == query \o UsizeToString(i - 1)
             url1 == SetQuery(url, q1)
         IN AssignFrom([tables EXCEPT ![i] = [@ EXCEPT !.id = url1, !.url = doc_url]],
                       i + 1, url1, Truncate(q1, query_len), query_len, doc_url)

\* extractors/table.rs 166-184
IdPhase(d, o, e) ==
    IF ~UrlParse(d.url).ok THEN Fail(e, UrlParse(d.url).err)
    ELSE LET url == UrlParse(d.url).val
             query == QueryPrefix(url)
         IN [e EXCEPT !.tables = AssignFrom(e.tables, 1, url, query, Len(query), d.url),
                      !.pc = "normalize"]

\* extractors/table.rs 189-194
NormalizeRows(rows, url) ==
    [i \in 1..Len(rows) |->
        [rows[i] EXCEPT !.cells =
            [j \in 1..Len(rows[i].cells) |->
                [rows[i].cells[j] EXCEPT !.value = NormalizeRichText(@, url)]]]]

\* extractors/table.rs 196-203
NormalizeContext(context, url) ==
    [i \in 1..Len(context) |->
        [context[i] EXCEPT
            !.content_before = [j \in 1..Len(@) |-> NormalizeRichText(@[j], url)],
            !.content_after = [j \in 1..Len(@) |-> NormalizeRichText(@[j], url)]]]

\* extractors/table.rs 186-206
NormalizePhase(d, o, e) ==
    [e EXCEPT !.tables = [i \in 1..Len(e.tables) |->
                             [e.tables[i] EXCEPT
                                 !.rows = NormalizeRows(@, d.url),
                                 !.context = NormalizeContext(@, d.url)]],
              !.pc = "done"]

(***************************************************************************)
(* Documents: up to MaxTables table elements drawn from the samples below, *)
(* a url with or without a query or one that does not parse, every         *)
(* combination of the three options.                                       *)
(***************************************************************************)
Td(colspan, rowspan, value) ==
    [name |-> "td", colspan |-> colspan, rowspan |-> rowspan, value |-> value]

Th(colspan, rowspan, value) ==
    [name |-> "th", colspan |-> colspan, rowspan |-> rowspan, value |-> value]

Tr(cells) == [name |-> "tr", attrs |-> "trattrs", children |-> cells]

Tbody(rows) == [name |-> "tbody", text |-> "", children |-> rows]

Thead(rows) == [name |-> "thead", text |-> "", children |-> rows]

CaptionEl(text) == [name |-> "caption", text |-> text, children |-> <<>>]

StyleEl == [name |-> "style", text |-> "", children |-> <<>>]

TableEl(children, ctx) ==
    [nested |-> FALSE, attrs |-> "tattrs", children |-> children, ctx |-> ctx]

\* ContentHierarchy
ContentHierarchy(level, heading, content_before, content_after) ==
    [level |-> level, heading |-> heading, content_before |-> content_before,
     content_after |-> content_after]

CtxNone == <<>>

CtxLinks ==
    <<ContentHierarchy(0, <<>>, << <<Rel("b0")>> >>, <<>>),
      ContentHierarchy(1, <<Rel("h1")>>, << <<Abs("http://o", "b1")>>, <<Rel("b2")>> >>,
                       << <<Rel("a1")>> >>)>>

\* a unit table with a caption and a relative link in a cell
ElPlain ==
    TableEl(<<CaptionEl("c1"),
              Tbody(<<Tr(<<Td(NoAttr, NoAttr, <<Rel("p1")>>),
                           Td(Attr(<<>>), Attr(<<" ">>), <<Abs("http://o", "p2")>>)>>)>>)>>,
            CtxLinks)

\* a ragged table with two captions, a thead and a style child
ElRagged ==
    TableEl(<<CaptionEl("c1"), StyleEl,
              Thead(<<Tr(<<Th(NoAttr, NoAttr, <<>>), Th(NoAttr, NoAttr, <<Rel("p3")>>)>>)>>),
              CaptionEl("c2"),
              Tbody(<<Tr(<<Td(NoAttr, NoAttr, <<>>)>>)>>)>>,
            CtxNone)

\* a rowspan that span resolves
ElRowspan ==
    TableEl(<<Tbody(<<Tr(<<Td(NoAttr, Attr(<<" ", "2", " ">>), <<Rel("p4")>>),
                           Td(NoAttr, NoAttr, <<>>)>>),
                      Tr(<<Td(Attr(<<"+", "1">>), NoAttr, <<>>)>>)>>)>>,
            CtxLinks)

\* a colspan that runs into a rowspan of the row above: OverlapSpanError
ElOverlap ==
    TableEl(<<Tbody(<<Tr(<<Td(NoAttr, NoAttr, <<>>), Td(NoAttr, Attr(<<"2">>), <<>>)>>),
                      Tr(<<Td(Attr(<<"2">>), NoAttr, <<>>)>>)>>)>>,
            CtxNone)

\* a colspan overflow on a cell that is not the last: InvalidCellSpanError
ElInvalid ==
    TableEl(<<Tbody(<<Tr(<<Td(Attr(<<"2">>), NoAttr, <<>>), Td(NoAttr, NoAttr, <<>>)>>)>>)>>,
            CtxNone)

\* a colspan attribute that is no number
ElBadAttr ==
    TableEl(<<Tbody(<<Tr(<<Td(Attr(<<"2", "x">>), NoAttr, <<>>)>>)>>)>>, CtxNone)

\* a table with a table inside
ElOuter == [ElPlain EXCEPT !.nested = TRUE]

SampleEls == {ElPlain, ElRagged, ElRowspan, ElOverlap, ElInvalid, ElBadAttr, ElOuter}

Url(valid, base, query) == [valid |-> valid, base |-> base, query |-> query]

SampleUrls ==
    {Url(TRUE, "http://h/d", None), Url(TRUE, "http://h/d", Some(<<"a=1">>)),
     Url(FALSE, "d.html", None)}

\* pyerr_at: the element (0: none) on whose table span(py) fails with an
\* error of the binding layer
InitExtract ==
    /\ table = NoTable
    /\ sp = SpanIdle
    /\ padin = None
    /\ padout = None
    /\ \E n \in 0..MaxTables :
         \E els \in [1..n -> SampleEls], url \in SampleUrls, f \in 0..n :
            doc = [url |-> url, els |-> els, pyerr_at |-> f]
    /\ opts \in [auto_span : BOOLEAN, auto_pad : BOOLEAN, extract_context : BOOLEAN]
    /\ ex = ExStart
    /\ tree = Empty
    /\ other = Empty

Select ==
    /\ ex.pc = "select"
    /\ ex' = SelectFrom(doc, ex, 1)
    /\ UNCHANGED <<svars, doc, opts, tvars>>

SpanTables ==
    /\ ex.pc = "span"
    /\ ex' = SpanPhase(doc, opts, ex)
    /\ UNCHANGED <<svars, doc, opts, tvars>>

PadTables ==
    /\ ex.pc = "pad"
    /\ ex' = PadPhase(doc, opts, ex)
    /\ UNCHANGED <<svars, doc, opts, tvars>>

AttachContext ==
    /\ ex.pc = "context"
    /\ ex' = ContextPhase(doc, opts, ex)
    /\ UNCHANGED <<svars, doc, opts, tvars>>

AssignIds ==
    /\ ex.pc = "ids"
    /\ ex' = IdPhase(doc, opts, ex)
    /\ UNCHANGED <<svars, doc, opts, tvars>>

NormalizeUrls ==
    /\ ex.pc = "normalize"
    /\ ex' = NormalizePhase(doc, opts, ex)
    /\ UNCHANGED <<svars, doc, opts, tvars>>

NextExtract ==
    Select \/ SpanTables \/ PadTables \/ AttachContext \/ AssignIds \/ NormalizeUrls

SpecExtract == InitExtract /\ [][NextExtract]_vars

(***************************************************************************)
(* Properties of extract_tables.                                           *)
(***************************************************************************)
\* the elements extract_tables selects, in document order
Selected ==
    LET Keep(i) == ~doc.els[i].nested
    IN SelectSeq([i \in 1..Len(doc.els) |-> i], Keep)

Extracted(i) == ExtractNonNestedTable(doc.els[i])

AllExtracted == \A k \in 1..Len(Selected) : Extracted(Selected[k]).ok

\* what span returns for the table of element i
SpanOf(i) == SpanPy(Extracted(i).val, doc.pyerr_at = i)

SpanDropped(i) ==
    ~SpanOf(i).ok /\ SpanOf(i).err.kind \in {"OverlapSpanError", "InvalidCellSpanError"}

SpanAborts(i) ==
    ~SpanOf(i).ok /\ SpanOf(i).err.kind \notin {"OverlapSpanError", "InvalidCellSpanError"}

SpanPassed == ex.pc \in {"pad", "context", "ids", "normalize", "done"}

Returned == ex.pc = "done"

\* C6: with auto_span, the tables that leave the span step (and are
\* returned) are the selected tables whose span succeeded, in document
\* order; a span failure of another kind makes the call fail; and when
\* nothing else fails (extraction, url) the call returns, whatever tables
\* have an OverlapSpanError or InvalidCellSpanError.
C6_SpanFilter ==
    (opts.auto_span /\ AllExtracted) =>
        LET Kept(i) == SpanOf(i).ok
        IN /\ (SpanPassed => ex.table_els = SelectSeq(Selected, Kept))
           /\ ((\E k \in 1..Len(Selected) : SpanAborts(Selected[k]))
                   => ex.pc \in {"select", "span", "failed"})
           /\ (((\A k \in 1..Len(Selected) : ~SpanAborts(Selected[k])) /\ doc.url.valid)
                   => ex.pc # "failed")

\* C6 witness: a call returned one table and dropped another one whose span
\* failed
C6_Witness ==
    /\ opts.auto_span
    /\ Returned
    /\ Len(ex.tables) >= 1
    /\ \E k \in 1..Len(Selected) : SpanDropped(Selected[k])

\* C7: a selected table with a colspan/rowspan attribute that is no number
\* is left out, the other tables are returned and the call does not fail
\* (here: url valid, no error of another kind in span).
C7_BadAttrExcludesOnlyTable ==
    (/\ ex.pc \in {"done", "failed"}
     /\ \E k \in 1..Len(Selected) : ~Extracted(Selected[k]).ok
     /\ doc.url.valid
     /\ doc.pyerr_at = 0)
        => /\ Returned
           /\ \A k \in 1..Len(Selected) :
                 (\E j \in 1..Len(ex.table_els) : ex.table_els[j] = Selected[k])
                     <=> (/\ Extracted(Selected[k]).ok
                          /\ opts.auto_span => SpanOf(Selected[k]).ok)

\* the decimal digits after the table_no= of an id
TableNoDigits(id, url) ==
    SubSeq(id.query.val, Len(QueryPrefix(url)) + 1, Len(id.query.val))

\* C8: the k-th returned table (k = 0..N-1) has url = the document url and
\* id = the document url whose query is the old query (if any), then
\* table_no=k in decimal; the ids are pairwise distinct.
C8_TableIds ==
    Returned =>
        /\ \A k \in 1..Len(ex.tables) :
              LET id == ex.tables[k].id
                  digits == TableNoDigits(id, doc.url)
              IN /\ ex.tables[k].url = doc.url
                 /\ id.valid /\ id.base = doc.url.base /\ id.query.some
                 /\ SubSeq(id.query.val, 1, Len(QueryPrefix(doc.url))) =
                       (IF doc.url.query.some
                        THEN doc.url.query.val \o <<"&table_no=">>
                        ELSE <<"table_no=">>)
                 /\ Len(digits) >= 1
                 /\ \A i \in 1..Len(digits) : digits[i] \in Digits
                 /\ (Len(digits) > 1 => digits[1] # "0")
                 /\ DecVal(digits) = k - 1
        /\ \A k1, k2 \in 1..Len(ex.tables) :
              ex.tables[k1].id = ex.tables[k2].id => k1 = k2

\* C8 witness: the table returned as table_no=0 is not the first selected
\* one (that one was dropped), and the url had a query already
C8_Witness ==
    /\ Returned
    /\ Len(ex.tables) >= 1
    /\ ex.table_els[1] > 1
    /\ Selected[1] = 1
    /\ doc.url.query.some

IsNormalized(rt) == \A i \in 1..Len(rt) : rt[i].abs

\* C9: in what a successful call returns every rich text is normalized:
\* every cell value, and in every context entry the heading, every
\* content_before block and every content_after block.
C9_AllRichTextNormalized ==
    Returned =>
        \A k \in 1..Len(ex.tables) :
            /\ \A i \in 1..Len(ex.tables[k].rows) :
                  \A j \in 1..Len(ex.tables[k].rows[i].cells) :
                      IsNormalized(ex.tables[k].rows[i].cells[j].value)
            /\ \A c \in 1..Len(ex.tables[k].context) :
                  LET ch == ex.tables[k].context[c]
                  IN /\ IsNormalized(ch.heading)
                     /\ \A j \in 1..Len(ch.content_before) : IsNormalized(ch.content_before[j])
                     /\ \A j \in 1..Len(ch.content_after) : IsNormalized(ch.content_after[j])

\* the text of the first caption child, the empty caption without one
FirstCaption(children) ==
    LET caps == SelectSeq(children, IsCaptionEl)
    IN IF Len(caps) = 0 THEN "" ELSE caps[1].text

\* C15: the caption of an extracted table is the text of the first caption
\* child of its table element, in document order, and the empty caption
\* when the element has no caption child.
C15_FirstCaption ==
    ex.pc \in {"span", "pad", "context", "ids", "normalize", "done"} =>
        \A k \in 1..Len(ex.tables) :
            ex.tables[k].caption = FirstCaption(doc.els[ex.table_els[k]].children)

(***************************************************************************)
(* The SimpleTree state machine.  `tree` and `other` are built with        *)
(* new / add_node / add_child; a merge moves `other` into `tree` and       *)
(* leaves a fresh empty() in its place.  MaxNodes bounds the nodes and     *)
(* MaxEntries the child entries of the two trees together.  The payload of a node names   *)
(* the tree it was added to and the uid it got there, so that a node of    *)
(* `other` is recognised after a merge.                                    *)
(***************************************************************************)
MaxNodes == 4

MaxEntries == 2

Payload(which, t) == <<which, Len(t.nodes)>>

Size(t) == Len(t.nodes)

Entries(t) == SumTo([i \in 1..Len(t.node2children) |-> Len(t.node2children[i])],
                    Len(t.node2children))

Ids(t) == 0..(Size(t) - 1)

InitTree ==
    /\ table = NoTable
    /\ sp = SpanIdle
    /\ padin = None
    /\ padout = None
    /\ doc = NoDoc
    /\ opts = NoOpts
    /\ ex = ExIdle
    /\ tree \in {Empty, New(Payload("tree", Empty))}
    /\ other = Empty

\* other = SimpleTree::new(node)
NewOther ==
    /\ Size(other) = 0
    /\ Size(tree) + 1 <= MaxNodes
    /\ other' = New(Payload("other", Empty))
    /\ UNCHANGED <<svars, evars, tree>>

TreeAddNode ==
    /\ Size(tree) + Size(other) + 1 <= MaxNodes
    /\ tree' = AddNode(tree, Payload("tree", tree))
    /\ UNCHANGED <<svars, evars, other>>

OtherAddNode ==
    /\ Size(tree) + Size(other) + 1 <= MaxNodes
    /\ other' = AddNode(other, Payload("other", other))
    /\ UNCHANGED <<svars, evars, tree>>

TreeAddChild ==
    /\ Entries(tree) + Entries(other) + 1 <= MaxEntries
    /\ \E parent_id \in Ids(tree), child_id \in Ids(tree) :
          tree' = AddChild(tree, parent_id, child_id)
    /\ UNCHANGED <<svars, evars, other>>

OtherAddChild ==
    /\ Entries(tree) + Entries(other) + 1 <= MaxEntries
    /\ \E parent_id \in Ids(other), child_id \in Ids(other) :
          other' = AddChild(other, parent_id, child_id)
    /\ UNCHANGED <<svars, evars, tree>>

\* tree.merge_subtree(parent_id, other).  parent_id is looked up after the
\* lists of `other` are appended (line 116), so any id of the merged tree
\* is in range.
TreeMergeSubtree ==
    /\ Entries(tree) + Entries(other) + 1 <= MaxEntries
    /\ \E parent_id \in 0..(Size(tree) + Size(other) - 1) :
          tree' = MergeSubtree(tree, parent_id, other)
    /\ other' = Empty
    /\ UNCHANGED <<svars, evars>>

\* tree.merge_subtree_no_root(parent_id, other).  With an empty `other`
\* line 141 indexes out of range and the call panics: no step.
TreeMergeSubtreeNoRoot ==
    /\ Size(other) > 0
    /\ \E parent_id \in Ids(tree) :
          tree' = MergeSubtreeNoRoot(tree, parent_id, other)
    /\ other' = Empty
    /\ UNCHANGED <<svars, evars>>

NextTree ==
    \/ NewOther \/ TreeAddNode \/ OtherAddNode \/ TreeAddChild \/ OtherAddChild
    \/ TreeMergeSubtree \/ TreeMergeSubtreeNoRoot

SpecTree == InitTree /\ [][NextTree]_vars

(***************************************************************************)
(* Properties of SimpleTree.                                               *)
(***************************************************************************)
\* how often id occurs in the child lists of t
Occ(t, id) ==
    SumTo([i \in 1..Len(t.node2children) |->
              Cardinality({j \in 1..Len(t.node2children[i]) : t.node2children[i][j] = id})],
          Len(t.node2children))

\* every node index but the root is in the child lists exactly once, the
\* root in none
ParentsUnique(t) == \A id \in Ids(t) : Occ(t, id) = IF id = t.root THEN 0 ELSE 1

\* every entry of a child list is a node index
EntriesInRange(t) ==
    \A i \in 1..Len(t.node2children) : \A j \in 1..Len(t.node2children[i]) :
        t.node2children[i][j] \in Ids(t)

WellFormed(t) == Size(t) > 0 /\ EntriesInRange(t) /\ ParentsUnique(t)

\* C10 as claimed: after any sequence of add_node, add_child, merge_subtree
\* and merge_subtree_no_root calls every node index but the root is in the
\* child lists exactly once and the root in none.
C10_ParentsUniqueAlways == ParentsUnique(tree)

\* C10 as amended: merge_subtree and merge_subtree_no_root keep the
\* property: when it holds of the tree and of the non-empty subtree (with
\* all child entries node indices) and parent_id is a node of the tree, it
\* holds of the merged tree.
C10_MergePreserves ==
    [][\A parent_id \in Ids(tree) :
          (/\ WellFormed(tree)
           /\ WellFormed(other)
           /\ \/ tree' = MergeSubtree(tree, parent_id, other)
              \/ tree' = MergeSubtreeNoRoot(tree, parent_id, other))
              => WellFormed(tree')]_vars

\* C10 witness: a subtree of two nodes has been merged into the tree and
\* the merged tree has the property
C10_Witness ==
    /\ WellFormed(tree)
    /\ Size(other) = 0
    /\ \E i, j \in 1..Size(tree) : i # j /\ tree.nodes[i][1] = "other" /\ tree.nodes[j][1] = "other"
    /\ \E i \in 1..Size(tree) : tree.nodes[i][1] = "tree"

\* the index in the merged tree of node u of a subtree o whose root is
\* dropped, n being the size of the receiving tree
NewIndex(o, n, u) == IF u < o.root THEN n + u ELSE n + u - 1

NewIndices(o, n, children) == [j \in 1..Len(children) |-> NewIndex(o, n, children[j])]

\* o is a subtree: it has a root, its child entries are node indices and
\* its root is the child of no node
IsSubtree(o) == Size(o) > 0 /\ EntriesInRange(o) /\ Occ(o, o.root) = 0

\* r is t with the nodes of o below o's root spliced in under parent_id
SplicedNoRoot(t, parent_id, o, r) ==
    LET n == Size(t)
        m == Size(o)
    IN /\ Size(r) = n + m - 1
       /\ Len(r.node2children) = n + m - 1
       /\ r.root = t.root
       /\ SubSeq(r.nodes, 1, n) = t.nodes
       /\ \A id \in Ids(t) \ {parent_id} : r.node2children[id + 1] = t.node2children[id + 1]
       /\ r.node2children[parent_id + 1] =
             t.node2children[parent_id + 1] \o NewIndices(o, n, o.node2children[o.root + 1])
       /\ \A k \in (n + 1)..(n + m - 1) : r.nodes[k] # o.nodes[o.root + 1]
       /\ \A u \in Ids(o) \ {o.root} :
             /\ r.nodes[NewIndex(o, n, u) + 1] = o.nodes[u + 1]
             /\ r.node2children[NewIndex(o, n, u) + 1] = NewIndices(o, n, o.node2children[u + 1])

\* C14: merge_subtree_no_root(parent, other), for a non-empty subtree
\* `other` of m nodes with its root at any index and a tree of n nodes,
\* gives a tree of n + m - 1 nodes: the first n nodes, the root and the
\* child lists are as before, but parent's list ends with the children of
\* other's root, in order; other's root is absent, every other node of
\* `other` keeps its payload and its ordered children under the new indices.
C14_MergeNoRootSplices ==
    [][\A parent_id \in Ids(tree) :
          (IsSubtree(other) /\ tree' = MergeSubtreeNoRoot(tree, parent_id, other))
              => SplicedNoRoot(tree, parent_id, other, tree')]_vars

\* C14 witness: a subtree of three nodes whose root was its node 1 has been
\* merged without its root: its nodes 0 and 2 are in the tree as the two
\* children of the parent, its node 1 is not
C14_Witness ==
    /\ Size(other) = 0
    /\ WellFormed(tree)
    /\ \E i, j \in 1..Size(tree) :
          tree.nodes[i] = <<"other", 0>> /\ tree.nodes[j] = <<"other", 2>>
    /\ \A k \in 1..Size(tree) : tree.nodes[k] # <<"other", 1>>
    /\ \E i \in 1..Size(tree) : tree.nodes[i][1] = "tree" /\ Len(tree.node2children[i]) = 2

====
